---- MODULE Spec2Model ----
(***************************************************************************)
(* Model of minesweeper.py: the Minesweeper board (ground truth), the      *)
(* Sentence clause and the MinesweeperAI knowledge base.                   *)
(*                                                                         *)
(* A cell is a pair <<i, j>>.  A Sentence is a record [cells, count].      *)
(* The knowledge base is a sequence of sentences (a Python list, in        *)
(* append order).  An optional cell (a cell or None) is a set with at most *)
(* one element: {} is None.                                                *)
(***************************************************************************)
EXTENDS Integers, FiniteSets, Sequences, TLC

(* Bounds of the model: grids of at most MaxCells cells, at most MaxMoves  *)
(* observations per game.                                                  *)
MaxCells == 8
MaxMoves == 3

(* Bounds of the games in which the driver is not assumed truthful: grids   *)
(* of at most AnyCells cells, at most AnyCalls calls of add_knowledge.       *)
AnyCells == 3
AnyCalls == 2

(* Bound of the games in which the driver also calls mark_safe and         *)
(* mark_mine with cells of its own choice: grids of at most CallCells      *)
(* cells.                                                                  *)
CallCells == 3

(* Bound of the truthful games whose single steps are compared, the state  *)
(* before a call with the state after it: grids of at most StepCells       *)
(* cells.                                                                  *)
StepCells == 7

(* Bound of the truthful games in which the driver marks again cells that  *)
(* are already marked: at most MarkMoves observations.                     *)
MarkMoves == 2

(* Bounds of the sentences the two queries of Sentence are applied to: a  *)
(* sentence about any cells of a grid of at most SentCells cells, with any *)
(* count up to SentCount (a Sentence is constructed from any set and any   *)
(* number).                                                                *)
SentCells == 4
SentCount == 4

VARIABLES
    height,       \* MinesweeperAI.height == Minesweeper.height
    width,        \* MinesweeperAI.width == Minesweeper.width
    board,        \* Minesweeper.mines: the hidden mine placement
    moves_made,   \* MinesweeperAI.moves_made
    mines,        \* MinesweeperAI.mines
    safes,        \* MinesweeperAI.safes
    knowledge,    \* MinesweeperAI.knowledge
    safes_first,  \* what the iteration order of safes makes make_safe_move
                  \* return: the order is fixed for as long as safes and
                  \* moves_made are not mutated
    error,        \* TRUE once a call has raised (KeyError: pop from an empty set)
    ret           \* the last call other than add_knowledge and what it
                  \* returned

vars == <<height, width, board, moves_made, mines, safes, knowledge,
          safes_first, error, ret>>

(***************************************************************************)
(* Grid geometry                                                           *)
(***************************************************************************)

\* 0 <= i < height and 0 <= j < width
InBounds(i, j, h, w) == 0 <= i /\ i < h /\ 0 <= j /\ j < w

\* every cell of an h x w board
GridCells(h, w) == (0 .. h - 1) \X (0 .. w - 1)

\* range(cell[0] - 1, cell[0] + 2) x range(cell[1] - 1, cell[1] + 2)
Window(cell) == (cell[1] - 1 .. cell[1] + 1) \X (cell[2] - 1 .. cell[2] + 1)

\* Minesweeper.nearby_mines
nearby_mines(b, cell, h, w) ==
    Cardinality({c \in Window(cell) :
                    /\ c # cell
                    /\ InBounds(c[1], c[2], h, w)
                    /\ c \in b})

(***************************************************************************)
(* Sentence                                                                *)
(***************************************************************************)

Sentence(cells, count) == [cells |-> cells, count |-> count]

get_set_length(s) == Cardinality(s.cells)

\* Sentence.known_mines: the cells, or None (here: the empty optional, with
\* a flag telling None from an empty set)
known_mines(s) ==
    IF Cardinality(s.cells) = s.count
    THEN [some |-> TRUE, cells |-> s.cells]
    ELSE [some |-> FALSE, cells |-> {}]

\* Sentence.known_safes
known_safes(s) ==
    IF s.count = 0
    THEN [some |-> TRUE, cells |-> s.cells]
    ELSE [some |-> FALSE, cells |-> {}]

\* Sentence.mark_mine that forgets to decrement count
Sentence_mark_mine_keep_count(s, cell) ==
    IF cell \in s.cells
    THEN [cells |-> s.cells \ {cell}, count |-> s.count]
    ELSE s

\* Sentence.mark_mine
Sentence_mark_mine(s, cell) ==
    IF cell \in s.cells
    THEN [cells |-> s.cells \ {cell}, count |-> s.count - 1]
    ELSE s

\* Sentence.mark_safe
Sentence_mark_safe(s, cell) ==
    IF cell \in s.cells
    THEN [cells |-> s.cells \ {cell}, count |-> s.count]
    ELSE s

(***************************************************************************)
(* MinesweeperAI.  The operators below work on a record                    *)
(*   [moves_made, mines, safes, knowledge, error]                          *)
(* holding the fields of the object while a call runs.                     *)
(***************************************************************************)

\* MinesweeperAI.mark_mine
AI_mark_mine(st, cell) ==
    [st EXCEPT !.mines = @ \cup {cell},
               !.knowledge = [i \in DOMAIN @ |-> Sentence_mark_mine(@[i], cell)]]

\* mark_safe that also takes the cell out of mines
AI_mark_safe_unmarks_mine(st, cell) ==
    [st EXCEPT !.safes = @ \cup {cell},
               !.mines = @ \ {cell},
               !.knowledge = [i \in DOMAIN @ |-> Sentence_mark_safe(@[i], cell)]]

\* MinesweeperAI.mark_safe
AI_mark_safe(st, cell) ==
    [st EXCEPT !.safes = @ \cup {cell},
               !.knowledge = [i \in DOMAIN @ |-> Sentence_mark_safe(@[i], cell)]]

\* e.get_set().pop() for the sentence at index idx, when it yields cell c
Pop(st, idx, c) ==
    [st EXCEPT !.knowledge[idx].cells = @ \ {c}]

\* set.pop() on an empty set raises KeyError
Raise(st) == [st EXCEPT !.error = TRUE]

\* the in-bounds neighbours of cell
Neighbours(cell, h, w) ==
    {c \in Window(cell) : c # cell /\ InBounds(c[1], c[2], h, w)}

\* the neighbours of the new sentence with known mines left out as well
mangoes_skip_mines(st, cell, h, w) ==
    {c \in Window(cell) :
        /\ ~(c = cell \/ c \in st.moves_made \/ c \in st.safes \/ c \in st.mines)
        /\ InBounds(c[1], c[2], h, w)}

\* the neighbours of the new sentence without the test for known safe cells
mangoes_keep_safes(st, cell, h, w) ==
    {c \in Window(cell) :
        /\ ~(c = cell \/ c \in st.moves_made)
        /\ InBounds(c[1], c[2], h, w)}

\* the neighbours the new sentence is about
mangoes(st, cell, h, w) ==
    {c \in Window(cell) :
        /\ ~(c = cell \/ c \in st.moves_made \/ c \in st.safes)
        /\ InBounds(c[1], c[2], h, w)}

\* One pass of the body of `for cell in range(size)` in the count == 0
\* branch: pop a cell of the sentence at index idx, mark it safe.  set.pop()
\* yields an arbitrary element, so every choice is an outcome; on an empty set
\* it raises.
PopSafe(st, idx) ==
    IF st.error THEN {st}
    ELSE IF st.knowledge[idx].cells = {} THEN {Raise(st)}
    ELSE {AI_mark_safe(Pop(st, idx, c), c) : c \in st.knowledge[idx].cells}

\* One pass of the body of `for cell in range(size)` in the
\* count == len(cells) branch: pop a cell, mark it a mine.
PopMine(st, idx) ==
    IF st.error THEN {st}
    ELSE IF st.knowledge[idx].cells = {} THEN {Raise(st)}
    ELSE {AI_mark_mine(Pop(st, idx, c), c) : c \in st.knowledge[idx].cells}

\* the second loop's drain without the test for known mines and made moves
PopRest_mark_all(st, idx) ==
    IF st.error THEN {st}
    ELSE IF st.knowledge[idx].cells = {} THEN {Raise(st)}
    ELSE {AI_mark_safe(Pop(st, idx, c), c) : c \in st.knowledge[idx].cells}

\* One pass of the body of `for i in range(size)` in the second loop: a popped
\* cell that is a known mine or a made move is skipped, any other is marked
\* safe.
PopRest(st, idx) ==
    IF st.error THEN {st}
    ELSE IF st.knowledge[idx].cells = {} THEN {Raise(st)}
    ELSE {IF c \in st.mines \/ c \in st.moves_made
          THEN Pop(st, idx, c)
          ELSE AI_mark_safe(Pop(st, idx, c), c) : c \in st.knowledge[idx].cells}

\* `for cell in range(size)`, n passes left, from any state of sts
RECURSIVE DrainSafe(_, _, _)
DrainSafe(sts, idx, n) ==
    IF n = 0 THEN sts
    ELSE DrainSafe(UNION {PopSafe(st, idx) : st \in sts}, idx, n - 1)

RECURSIVE DrainMine(_, _, _)
DrainMine(sts, idx, n) ==
    IF n = 0 THEN sts
    ELSE DrainMine(UNION {PopMine(st, idx) : st \in sts}, idx, n - 1)

RECURSIVE DrainRest(_, _, _)
DrainRest(sts, idx, n) ==
    IF n = 0 THEN sts
    ELSE DrainRest(UNION {PopRest(st, idx) : st \in sts}, idx, n - 1)

\* the first loop's body without the count == len(cells) branch
Resolve_only_safes(st, idx) ==
    LET e == st.knowledge[idx] IN
    IF e.count = 0 THEN DrainSafe({st}, idx, get_set_length(e))
    ELSE {st}

\* the first loop's body with `range(size + 1)`: one pass too many
Resolve_one_more_pass(st, idx) ==
    LET e == st.knowledge[idx] IN
    IF e.count = 0 THEN DrainSafe({st}, idx, get_set_length(e) + 1)
    ELSE IF e.count = get_set_length(e) THEN DrainMine({st}, idx, get_set_length(e) + 1)
    ELSE {st}

\* body of the first loop for the sentence at index idx
Resolve(st, idx) ==
    LET e == st.knowledge[idx] IN
    IF e.count = 0 THEN DrainSafe({st}, idx, get_set_length(e))
    ELSE IF e.count = get_set_length(e) THEN DrainMine({st}, idx, get_set_length(e))
    ELSE {st}

\* `for e in self.knowledge`, from index idx on; a raised error ends the call
RECURSIVE ResolveLoop(_, _)
ResolveLoop(st, idx) ==
    IF st.error \/ idx > Len(st.knowledge) THEN {st}
    ELSE UNION {ResolveLoop(s2, idx + 1) : s2 \in Resolve(st, idx)}

\* body of the second loop for the sentence at index idx
Sweep(st, idx) ==
    LET sentence == st.knowledge[idx]
        count == Cardinality({c \in sentence.cells : c \in st.mines})
    IN IF get_set_length(sentence) = 0 THEN {st}
       ELSE IF sentence.count = count
            THEN DrainRest({st}, idx, get_set_length(sentence))
            ELSE {st}

\* `for sentence in self.knowledge`, from index idx on
RECURSIVE SweepLoop(_, _)
SweepLoop(st, idx) ==
    IF st.error \/ idx > Len(st.knowledge) THEN {st}
    ELSE UNION {SweepLoop(s2, idx + 1) : s2 \in Sweep(st, idx)}

\* add_knowledge without its call of mark_safe(cell)
add_knowledge_no_mark_safe(st, cell, count, h, w) ==
    LET m  == mangoes(st, cell, h, w)
        s1 == [st EXCEPT !.moves_made = @ \cup {cell}]
        s2 == [s1 EXCEPT !.knowledge = Append(@, Sentence(m, count))]
    IN UNION {SweepLoop(s3, 1) : s3 \in ResolveLoop(s2, 1)}

\* MinesweeperAI.add_knowledge: the set of states it can return in
add_knowledge(st, cell, count, h, w) ==
    LET m  == mangoes(st, cell, h, w)
        s1 == AI_mark_safe([st EXCEPT !.moves_made = @ \cup {cell}], cell)
        s2 == [s1 EXCEPT !.knowledge = Append(@, Sentence(m, count))]
    IN UNION {SweepLoop(s3, 1) : s3 \in ResolveLoop(s2, 1)}

\* make_safe_move without the test for moves_made
make_safe_move_any_safe(sf, mm) ==
    IF sf = {} THEN {{}} ELSE {{move} : move \in sf}

\* MinesweeperAI.make_safe_move: what the loop over safes can return.  The
\* iteration order of a set is arbitrary, so any cell of safes that is not in
\* moves_made may be the first one met; None when there is none.
make_safe_move(sf, mm) ==
    LET moves == {move \in sf : ~(move \in mm)}
    IN IF moves = {} THEN {{}} ELSE {{move} : move \in moves}

\* the cells make_random_move loops over: range(width - 1) x range(height - 1)
RandomRange(h, w) == (0 .. w - 2) \X (0 .. h - 2)

\* i, then j, ascending
Before(a, b) == a[1] < b[1] \/ (a[1] = b[1] /\ a[2] <= b[2])

\* make_random_move without the test for known mines
make_random_move_ignore_mines(ms, mm, h, w) ==
    LET free == {c \in RandomRange(h, w) : ~(c \in mm)}
    IN {c \in free : \A d \in free : Before(c, d)}

\* MinesweeperAI.make_random_move
make_random_move(ms, mm, h, w) ==
    LET free == {c \in RandomRange(h, w) : ~(c \in ms \/ c \in mm)}
    IN {c \in free : \A d \in free : Before(c, d)}

(***************************************************************************)
(* State machine                                                           *)
(***************************************************************************)

AIState == [moves_made |-> moves_made, mines |-> mines, safes |-> safes,
            knowledge |-> knowledge, error |-> error]

NoCall == [op |-> "none", val |-> {}]

\* Minesweeper.__init__ and MinesweeperAI.__init__
Init ==
    /\ height \in 1 .. MaxCells
    /\ width \in 1 .. MaxCells
    /\ height * width <= MaxCells
    /\ board \in SUBSET GridCells(height, width)
    /\ moves_made = {}
    /\ mines = {}
    /\ safes = {}
    /\ knowledge = <<>>
    /\ safes_first = {}
    /\ error = FALSE
    /\ ret = NoCall

\* the driver reveals a cell that is not a mine and was not revealed before,
\* and tells the AI the board's count
AddKnowledge ==
    \E cell \in GridCells(height, width) :
        /\ cell \notin board
        /\ cell \notin moves_made
        /\ Cardinality(moves_made) < MaxMoves
        /\ \E out \in add_knowledge(AIState, cell,
                                    nearby_mines(board, cell, height, width),
                                    height, width) :
              /\ moves_made' = out.moves_made
              /\ mines' = out.mines
              /\ safes' = out.safes
              /\ knowledge' = out.knowledge
              /\ error' = out.error
              /\ safes_first' \in make_safe_move(out.safes, out.moves_made)
        /\ ret' = NoCall
        /\ UNCHANGED <<height, width, board>>

\* make_safe_move that records the move it returns as made
MakeSafeMove_records_move ==
    /\ ret' = [op |-> "safe", val |-> safes_first]
    /\ moves_made' = moves_made \cup safes_first
    /\ UNCHANGED <<height, width, board, mines, safes, knowledge,
                   safes_first, error>>

MakeSafeMove ==
    /\ ret' = [op |-> "safe", val |-> safes_first]
    /\ UNCHANGED <<height, width, board, moves_made, mines, safes, knowledge,
                   safes_first, error>>

MakeRandomMove ==
    /\ ret' = [op |-> "random",
               val |-> make_random_move(mines, moves_made, height, width)]
    /\ UNCHANGED <<height, width, board, moves_made, mines, safes, knowledge,
                   safes_first, error>>

Next == AddKnowledge \/ MakeSafeMove \/ MakeRandomMove

Spec == Init /\ [][Next]_vars

\* the truthful game of Spec on the grids of at most StepCells cells
InitSteps ==
    /\ height \in 1 .. StepCells
    /\ width \in 1 .. StepCells
    /\ height * width <= StepCells
    /\ board \in SUBSET GridCells(height, width)
    /\ moves_made = {}
    /\ mines = {}
    /\ safes = {}
    /\ knowledge = <<>>
    /\ safes_first = {}
    /\ error = FALSE
    /\ ret = NoCall

SpecSteps == InitSteps /\ [][Next]_vars

(***************************************************************************)
(* The same object under a driver that is not assumed truthful:            *)
(* add_knowledge is called with any cell, inside the grid or next to it,   *)
(* revealed before or not, and with any count some board of that size can *)
(* report there.  The board plays no part.                                 *)
(***************************************************************************)

InitAny ==
    /\ height \in 1 .. AnyCells
    /\ width \in 1 .. AnyCells
    /\ height * width <= AnyCells
    /\ board = {}
    /\ moves_made = {}
    /\ mines = {}
    /\ safes = {}
    /\ knowledge = <<>>
    /\ safes_first = {}
    /\ error = FALSE
    /\ ret = NoCall

AddKnowledgeAny ==
    \E cell \in (-1 .. height) \X (-1 .. width) :
      \E count \in 0 .. nearby_mines(GridCells(height, width), cell, height, width) :
        /\ Len(knowledge) < AnyCalls
        /\ \E out \in add_knowledge(AIState, cell, count, height, width) :
              /\ moves_made' = out.moves_made
              /\ mines' = out.mines
              /\ safes' = out.safes
              /\ knowledge' = out.knowledge
              /\ error' = out.error
              /\ safes_first' \in make_safe_move(out.safes, out.moves_made)
        /\ ret' = NoCall
        /\ UNCHANGED <<height, width, board>>

NextAny == AddKnowledgeAny

SpecAny == InitAny /\ [][NextAny]_vars

(***************************************************************************)
(* mark_mine and mark_safe called from outside the object.                 *)
(***************************************************************************)

\* MinesweeperAI.mark_mine(cell), called by the driver
MarkMine(cell) ==
    LET out == AI_mark_mine(AIState, cell) IN
    /\ mines' = out.mines
    /\ knowledge' = out.knowledge
    /\ ret' = [op |-> "mark_mine", val |-> {}]
    /\ UNCHANGED <<height, width, board, moves_made, safes, safes_first, error>>

\* MinesweeperAI.mark_safe(cell), called by the driver; adding a cell that is
\* already in safes leaves the set, and so its iteration order, as it is
MarkSafe(cell) ==
    LET out == AI_mark_safe(AIState, cell) IN
    /\ safes' = out.safes
    /\ knowledge' = out.knowledge
    /\ safes_first' \in IF cell \in safes THEN {safes_first}
                        ELSE make_safe_move(out.safes, moves_made)
    /\ ret' = [op |-> "mark_safe", val |-> {}]
    /\ UNCHANGED <<height, width, board, moves_made, mines, error>>

\* a truthful game in which the driver marks again cells that are already
\* marked
MarkMineKnown == \E cell \in mines : MarkMine(cell)

MarkSafeKnown == \E cell \in safes : MarkSafe(cell)

\* a truthful observation, as AddKnowledge, in a game of at most MarkMoves
\* observations
AddKnowledgeMarks ==
    \E cell \in GridCells(height, width) :
        /\ cell \notin board
        /\ cell \notin moves_made
        /\ Cardinality(moves_made) < MarkMoves
        /\ \E out \in add_knowledge(AIState, cell,
                                    nearby_mines(board, cell, height, width),
                                    height, width) :
              /\ moves_made' = out.moves_made
              /\ mines' = out.mines
              /\ safes' = out.safes
              /\ knowledge' = out.knowledge
              /\ error' = out.error
              /\ safes_first' \in make_safe_move(out.safes, out.moves_made)
        /\ ret' = NoCall
        /\ UNCHANGED <<height, width, board>>

NextMarks == AddKnowledgeMarks \/ MarkMineKnown \/ MarkSafeKnown

SpecMarks == Init /\ [][NextMarks]_vars

\* a game in which the driver marks any cell of the grid, whatever the board
InitCalls ==
    /\ height \in 1 .. CallCells
    /\ width \in 1 .. CallCells
    /\ height * width <= CallCells
    /\ board \in SUBSET GridCells(height, width)
    /\ moves_made = {}
    /\ mines = {}
    /\ safes = {}
    /\ knowledge = <<>>
    /\ safes_first = {}
    /\ error = FALSE
    /\ ret = NoCall

MarkMineAny == \E cell \in GridCells(height, width) : MarkMine(cell)

MarkSafeAny == \E cell \in GridCells(height, width) : MarkSafe(cell)

NextCalls ==
    \/ AddKnowledge
    \/ MarkSafeAny
    \/ MarkMineAny
    \/ MakeSafeMove
    \/ MakeRandomMove

SpecCalls == InitCalls /\ [][NextCalls]_vars

(***************************************************************************)
(* The queries of one Sentence: the sentence is knowledge[1], constructed  *)
(* from any cells and any count, and ret holds what the last query         *)
(* returned.                                                               *)
(***************************************************************************)

\* Python's None as the result of a query
None == [some |-> FALSE, cells |-> {}]

InitSentence ==
    /\ \E h, w \in 1 .. SentCells :
          /\ h * w <= SentCells
          /\ height = h
          /\ width = w
    /\ \E cells \in SUBSET GridCells(height, width), count \in 0 .. SentCount :
          knowledge = <<Sentence(cells, count)>>
    /\ board = {}
    /\ moves_made = {}
    /\ mines = {}
    /\ safes = {}
    /\ safes_first = {}
    /\ error = FALSE
    /\ ret = NoCall

\* knowledge[1].known_mines(): works on a deep copy of the cells
KnownMines ==
    /\ ret' = [op |-> "known_mines", val |-> known_mines(knowledge[1])]
    /\ UNCHANGED <<height, width, board, moves_made, mines, safes, knowledge,
                   safes_first, error>>

\* knowledge[1].known_safes(): works on a deep copy of the cells
KnownSafes ==
    /\ ret' = [op |-> "known_safes", val |-> known_safes(knowledge[1])]
    /\ UNCHANGED <<height, width, board, moves_made, mines, safes, knowledge,
                   safes_first, error>>

NextSentence == KnownMines \/ KnownSafes

SpecSentence == InitSentence /\ [][NextSentence]_vars

(***************************************************************************)
(* Properties                                                              *)
(***************************************************************************)

\* a call of add_knowledge has returned
Observed == moves_made # {}

\* C1 (soundness against the board): with truthful observations, no cell of
\* safes is a mine of the board and every cell of mines is a mine of the board.
SoundAgainstBoard ==
    /\ safes \cap board = {}
    /\ mines \subseteq board

\* C1 witness: observations have proved a mine and a cell never revealed safe.
SoundAgainstBoardWitness ==
    /\ Observed
    /\ mines # {}
    /\ safes \ moves_made # {}

\* C2 (disjointness): safes and mines have no cell in common.
SafesMinesDisjoint == safes \cap mines = {}

\* C2 witness: after several observations some cells are proved mines and
\* cells that were never revealed are proved safe, by draining sentences.
SafesMinesDisjointWitness ==
    /\ mines # {}
    /\ safes \ moves_made # {}
    /\ \E i \in DOMAIN knowledge :
          knowledge[i].cells = {} /\ knowledge[i].count > 0
    /\ Cardinality(moves_made) >= 2

\* C3 (count bounds): every sentence of the knowledge list has
\* 0 <= count <= |cells|, drained sentences included.
CountBounds ==
    \A i \in DOMAIN knowledge :
        /\ 0 <= knowledge[i].count
        /\ knowledge[i].count <= Cardinality(knowledge[i].cells)

\* C4 (closure): after add_knowledge, no sentence of the knowledge list holds
\* a cell of safes or of mines.
Closure ==
    \A i \in DOMAIN knowledge :
        knowledge[i].cells \cap (safes \cup mines) = {}

\* C5: after any sequence of add_knowledge calls, truthful or not, every
\* cell of moves_made is in safes.
MovesMadeAreSafes == moves_made \subseteq safes

\* C5 witness: add_knowledge was called twice for the same cell.
MovesMadeAreSafesWitness ==
    /\ Len(knowledge) >= 2
    /\ Cardinality(moves_made) = 1

\* C6 (fixpoint of trivial resolution): when add_knowledge has returned, a
\* nonempty sentence with count 0 has all its cells in safes and a nonempty
\* sentence with count = |cells| has all its cells in mines.
TrivialFixpoint ==
    \A i \in DOMAIN knowledge :
        LET s == knowledge[i] IN
        /\ (s.count = 0 /\ s.cells # {}) => s.cells \subseteq safes
        /\ (s.count = Cardinality(s.cells) /\ s.cells # {}) => s.cells \subseteq mines

\* C7 (subset inference): when add_knowledge has returned, for any two
\* sentences A and B with A.cells a nonempty strict subset of B.cells the
\* knowledge list holds the sentence {B.cells \ A.cells, B.count - A.count},
\* and when that sentence says all its cells are mines, they are in mines.
SubsetInference ==
    \A a \in DOMAIN knowledge : \A b \in DOMAIN knowledge :
        LET A == knowledge[a]
            B == knowledge[b]
        IN (A.cells # {} /\ A.cells \subseteq B.cells /\ A.cells # B.cells) =>
              /\ \E c \in DOMAIN knowledge :
                    knowledge[c] = Sentence(B.cells \ A.cells, B.count - A.count)
              /\ (B.count - A.count = Cardinality(B.cells \ A.cells)) =>
                    (B.cells \ A.cells) \subseteq mines

\* C8 (make_random_move covers the grid): it returns an in-bounds cell that is
\* in neither moves_made nor mines, and None only when every cell of the grid
\* is in moves_made or mines.
RandomMoveCoversGrid ==
    ret.op = "random" =>
        /\ ret.val \subseteq GridCells(height, width)
        /\ ret.val \cap (moves_made \cup mines) = {}
        /\ ret.val = {} => GridCells(height, width) \subseteq (moves_made \cup mines)

\* C9 (move exclusivity): make_safe_move never returns a made move, and
\* make_random_move never returns a made move or a known mine.
MoveExclusivity ==
    /\ ret.op = "safe" => ret.val \cap moves_made = {}
    /\ ret.op = "random" => ret.val \cap (moves_made \cup mines) = {}

\* C9 witness: make_random_move returned a cell after stepping over a made
\* move and a known mine.
MoveExclusivityWitness ==
    /\ ret.op = "random"
    /\ ret.val # {}
    /\ \E c \in ret.val :
          /\ \E d \in moves_made : Before(d, c)
          /\ \E d \in mines : Before(d, c)

\* C10 (make_safe_move availability): a returned cell is in safes, and None is
\* returned exactly when safes \ moves_made is empty.
SafeMoveAvailability ==
    ret.op = "safe" =>
        /\ ret.val \subseteq safes
        /\ ret.val = {} <=> (safes \ moves_made = {})

\* C10 witness: make_safe_move returned a cell while other safe cells had
\* already been played.
SafeMoveAvailabilityWitness ==
    /\ ret.op = "safe"
    /\ ret.val # {}
    /\ Cardinality(moves_made) >= 2

\* make_safe_move returned None although moves were made
SafeMoveNoneReached ==
    /\ ret.op = "safe"
    /\ ret.val = {}
    /\ moves_made # {}

\* C11 (purity of the move queries): a call of make_safe_move or
\* make_random_move leaves safes, mines, moves_made and the knowledge list
\* unchanged, and a make_safe_move call that follows a make_safe_move call
\* returns the same result.
QueriesArePure ==
    [][ret'.op \in {"safe", "random"} =>
          /\ UNCHANGED <<safes, mines, moves_made, knowledge>>
          /\ (ret.op = "safe" /\ ret'.op = "safe") => ret'.val = ret.val]_vars

\* C11 witness: make_safe_move returned a cell when it had several to choose
\* from.
QueriesArePureWitness ==
    /\ ret.op = "safe"
    /\ ret.val # {}
    /\ Cardinality(safes \ moves_made) >= 2

\* C12 (precondition violations are rejected): a call of add_knowledge for a
\* cell outside the grid or for a cell already in moves_made fails and is not
\* taken as an observation, so every cell of moves_made is a cell of the grid
\* and the knowledge list holds one sentence for each cell of moves_made, no
\* more.
BadCallsRejected ==
    /\ moves_made \subseteq GridCells(height, width)
    /\ Len(knowledge) <= Cardinality(moves_made)

\* C13 (mark_mine is idempotent on known mines): in a truthful game, a call
\* of mark_mine for a cell already in mines leaves mines, safes, moves_made
\* and every sentence of the knowledge list unchanged.
MarkMineIdempotent ==
    [][ret'.op = "mark_mine" =>
          UNCHANGED <<mines, safes, moves_made, knowledge>>]_vars

\* C14 (mark_safe is idempotent on known safes): in a truthful game, a call
\* of mark_safe for a cell already in safes leaves safes, mines, moves_made
\* and every sentence of the knowledge list unchanged.
MarkSafeIdempotent ==
    [][ret'.op = "mark_safe" =>
          UNCHANGED <<safes, mines, moves_made, knowledge>>]_vars

\* C14 witness: mark_safe was called again for a known safe cell while the
\* knowledge list held an unresolved sentence and a safe cell not yet played.
MarkSafeIdempotentWitness ==
    /\ ret.op = "mark_safe"
    /\ safes \ moves_made # {}
    /\ \E i \in DOMAIN knowledge : knowledge[i].cells # {}

\* C15 (vacuous sentences are discarded): when add_knowledge has returned,
\* the knowledge list holds no sentence with an empty cell set.
NoVacuousSentence ==
    \A i \in DOMAIN knowledge : knowledge[i].cells # {}

\* C16 (sentence resolution queries): known_safes returns the full cell set
\* if count = 0 and cells is nonempty and None otherwise, known_mines returns
\* the full cell set if count = |cells| and None otherwise, None for the
\* vacuous sentence; neither query changes the sentence.
SentenceQueries ==
    [][LET s == knowledge[1] IN
       /\ ret'.op \in {"known_safes", "known_mines"} => knowledge' = knowledge
       /\ ret'.op = "known_safes" =>
             ret'.val = IF s.count = 0 /\ s.cells # {}
                        THEN [some |-> TRUE, cells |-> s.cells]
                        ELSE None
       /\ ret'.op = "known_mines" =>
             ret'.val = IF s.count = Cardinality(s.cells) /\ s.cells # {}
                        THEN [some |-> TRUE, cells |-> s.cells]
                        ELSE None]_vars

\* C17 (direct resolution of a new observation): after a truthful
\* add_knowledge(cell, 0) every in-bounds neighbour of cell is in safes, and
\* make_safe_move returns a cell when some neighbour is not in moves_made;
\* after add_knowledge(cell, n) with n the number of in-bounds neighbours of
\* cell not in safes before the call, every one of those neighbours is in
\* mines.
DirectResolution ==
    [][\A cell \in moves_made' \ moves_made :
          LET nb == Neighbours(cell, height, width)
              n  == nearby_mines(board, cell, height, width)
          IN /\ n = 0 =>
                  /\ nb \subseteq safes'
                  /\ nb \ moves_made' # {} => safes_first' # {}
             /\ n = Cardinality(nb \ safes) => (nb \ safes) \subseteq mines']_vars

\* C17 witness: one observed cell has count 0, neighbours, all of them in
\* safes and one still to play; another observed cell has only mines as
\* neighbours, all of them in mines.
DirectResolutionWitness ==
    /\ \E cell \in moves_made :
          /\ nearby_mines(board, cell, height, width) = 0
          /\ Neighbours(cell, height, width) \ moves_made # {}
          /\ Neighbours(cell, height, width) \subseteq safes
          /\ safes_first # {}
    /\ \E cell \in moves_made :
          /\ Neighbours(cell, height, width) # {}
          /\ Neighbours(cell, height, width) \subseteq board
          /\ Neighbours(cell, height, width) \subseteq mines

\* C18 (monotonic fact accumulation): across every step of any sequence of
\* add_knowledge, mark_safe, mark_mine, make_safe_move and make_random_move
\* calls, safes, mines and moves_made only grow.
MonotonicFacts ==
    [][/\ safes \subseteq safes'
       /\ mines \subseteq mines'
       /\ moves_made \subseteq moves_made']_vars

\* C18 witness: after an observation, marks have put one cell into both safes
\* and mines, and the last call was a mark_safe.
MonotonicFactsWitness ==
    /\ ret.op = "mark_safe"
    /\ moves_made # {}
    /\ safes \cap mines # {}

\* C19 (add_knowledge always completes normally): no drain loop of
\* add_knowledge pops from an empty set, so no call has raised.
NeverPopsEmpty == ~error

\* C19 witness: two calls have returned, both loops have drained sentences:
\* every sentence is empty, one of them drained as mines, and mines and
\* unplayed safe cells were found.
NeverPopsEmptyWitness ==
    /\ ~error
    /\ Len(knowledge) >= 2
    /\ \A i \in DOMAIN knowledge : knowledge[i].cells = {}
    /\ \E i \in DOMAIN knowledge : knowledge[i].count > 0
    /\ mines # {}
    /\ safes \ moves_made # {}

\* C20 (every nonempty sentence stays true of the board): when add_knowledge
\* has returned, every sentence with a nonempty cell set has exactly count
\* mines of the board among its cells, known mines it still contains
\* included.
NonemptySentencesTrue ==
    \A i \in DOMAIN knowledge :
        knowledge[i].cells # {} =>
            Cardinality(knowledge[i].cells \cap board) = knowledge[i].count

\* C20 witness: a sentence still contains a cell of mines next to a cell that
\* is not known.
NonemptySentencesTrueWitness ==
    \E i \in DOMAIN knowledge :
        /\ knowledge[i].cells \cap mines # {}
        /\ knowledge[i].cells \ (mines \cup safes) # {}

====
